---- MODULE Spec2Model ----
(***************************************************************************)
(* Model of katsd/png-viewer, src/main.rs: PngReader::read walks the file  *)
(* bytes (signature, then length/type/data/crc chunks), dispatches each    *)
(* chunk to its handler, inflates the accumulated IDAT bytes and rebuilds  *)
(* the pixel grid scanline by scanline with remove_filter / paeth.         *)
(*                                                                         *)
(* Rust indexes from 0, TLA+ sequences from 1: At(s, i) is s[i] of the     *)
(* source, Slice(s, lo, hi) is &s[lo..hi].  A panic (index out of range,   *)
(* unwrap/expect on Err, panic!) ends the process: pc = "panic".           *)
(***************************************************************************)
EXTENDS Integers, Naturals, Sequences, FiniteSets, TLC

VARIABLES
    bytes,              \* PngReader.bytes: the whole file
    chunks,             \* the chunk list the file was written from (input description)
    pc,                 \* position in read(): signature, chunks, rows, pixels, done, panic
    err,                \* the panic message, "" while running
    idx,                \* read(): the cursor `idx`
    nread,              \* number of read_chunk calls that returned Ok
    width, height, bit_depth, colour_type,
    compression_method, filter_method, interlace_method,
    image_data,         \* PngReader.image_data: accumulated IDAT bytes
    pixel_data,         \* PngReader.pixel_data: rows of pixels
    inflate_calls,      \* number of ZlibDecoder::read_to_end calls made
    inflate_input,      \* the byte slice handed to the last such call
    data,               \* decode_image_data: the inflated buffer `data`
    color_len,          \* decode_image_data: `color_len`
    h, w,               \* decode_image_data: loop counters
    dec_idx,            \* decode_image_data: the local `idx`
    filter_type,        \* decode_image_data: `filter_type` of the current row
    nbr,                \* the neighbours a, b, c read by the last pixel step
    written,            \* cells assigned so far, in order of assignment
    rf                  \* a single call of remove_filter: arguments and result

vars == <<bytes, chunks, pc, err, idx, nread, width, height, bit_depth, colour_type,
          compression_method, filter_method, interlace_method, image_data, pixel_data,
          inflate_calls, inflate_input, data, color_len, h, w, dec_idx, filter_type,
          nbr, written, rf>>

header == <<width, height, bit_depth, colour_type,
            compression_method, filter_method, interlace_method>>

decode_locals == <<data, color_len, h, w, dec_idx, filter_type, nbr, written>>

(***************************************************************************)
(* Bounds of the checked inputs.                                           *)
(***************************************************************************)
MaxChunks == 3
MaxWidth == 2
MaxHeight == 2
NumSeeds == 1
MaxCut == 2
MaxSmall == 4

(***************************************************************************)
(* Program constants.                                                      *)
(***************************************************************************)
SigLen == 8
LenFieldLen == 4
TypeFieldLen == 4
CrcLen == 4
IhdrLen == 13
TimeLen == 7
OpaqueAlpha == 255

Signature == <<137, 80, 78, 71, 13, 10, 26, 10>>

TagIHDR == <<73, 72, 68, 82>>
TagIDAT == <<73, 68, 65, 84>>
TagTEXT == <<116, 69, 88, 116>>
TagTIME == <<116, 73, 77, 69>>
TagIEND == <<73, 69, 78, 68>>

(***************************************************************************)
(* Slices and integer conversions.                                         *)
(***************************************************************************)
At(s, i) == s[i + 1]

Slice(s, lo, hi) == SubSeq(s, lo + 1, hi)

\* usize::from_be_bytes([0,0,0,0,b0,b1,b2,b3]) / u32::from_be_bytes([b0,b1,b2,b3])
from_be_bytes(b0, b1, b2, b3) == ((b0 * 256 + b1) * 256 + b2) * 256 + b3

\* `v as u8` of a non-negative or negative i32: the low eight bits
AsU8(v) == v % 256

\* std::str::from_utf8(..).is_ok(), exact for byte strings whose bytes >= 128
\* never start or continue a well-formed sequence (the inputs generated below
\* are ASCII, or hold 255, which no UTF-8 string holds)
Utf8Ok(s) == \A i \in 1..Len(s) : s[i] < 128

Pixel(r, g, b, a) == [r |-> r, g |-> g, b |-> b, a |-> a]

\* #[derive(Default)] Pixel
DefaultPixel == Pixel(0, 0, 0, 0)

(***************************************************************************)
(* Predictor: paeth and remove_filter (main.rs 300-342).                   *)
(***************************************************************************)
Abs(v) == IF v < 0 THEN -v ELSE v

\* paeth with strict comparisons: a tie between a and b no longer goes to a
paeth_strict(a, b, c) ==
    LET p == a + b - c
        pa == Abs(p - a)
        pb == Abs(p - b)
        pcc == Abs(p - c)
    IN  IF pa < pb /\ pa < pcc THEN AsU8(a)
        ELSE IF pb < pcc THEN AsU8(b)
        ELSE AsU8(c)

paeth(a, b, c) ==
    LET p == a + b - c
        pa == Abs(p - a)
        pb == Abs(p - b)
        pcc == Abs(p - c)
    IN  IF pa <= pb /\ pa <= pcc THEN AsU8(a)
        ELSE IF pb <= pcc THEN AsU8(b)
        ELSE AsU8(c)

remove_filter(ft, x, a, b, c) ==
    CASE ft = 0 -> x
      [] ft = 1 -> AsU8(x + a)
      [] ft = 2 -> AsU8(x + b)
      [] ft = 3 -> AsU8(x + ((a + b) \div 2))
      [] ft = 4 -> AsU8(x + paeth(a, b, c))
      [] OTHER -> 0

(***************************************************************************)
(* Pieces of decode_image_data (main.rs 240-298).                          *)
(***************************************************************************)
NoColorLen == 0 - 1

\* the match at 244-251; NoColorLen stands for the panic! arm
ColorLen(ct) ==
    CASE ct = 0 -> 1
      [] ct = 2 -> 3
      [] ct = 3 -> 1
      [] ct = 4 -> 2
      [] ct = 6 -> 4
      [] OTHER -> NoColorLen

\* a row one pixel too long
NewRow_long(wd) == [i \in 1..(wd + 1) |-> DefaultPixel]

\* vec![Default::default(); self.width as usize]
NewRow(wd) == [i \in 1..wd |-> DefaultPixel]

\* (self.width as usize * color_len + 1) * h
RowStart(wd, n, row) == (wd * n + 1) * row

\* the cell pixel_data[row][col]
Cell(pd, row, col) == pd[row + 1][col + 1]

LeftNeighbour(pd, row, col) ==
    IF col = 0 THEN DefaultPixel ELSE Cell(pd, row, col - 1)

UpNeighbour(pd, row, col) ==
    IF row = 0 THEN DefaultPixel ELSE Cell(pd, row - 1, col)

\* the upper-left neighbour taken from the cell straight above
UpLeftNeighbour_above(pd, row, col) ==
    IF col = 0 \/ row = 0 THEN DefaultPixel ELSE Cell(pd, row - 1, col)

UpLeftNeighbour(pd, row, col) ==
    IF col = 0 \/ row = 0 THEN DefaultPixel ELSE Cell(pd, row - 1, col - 1)

\* the highest offset from `idx` that the match at 265-292 reads
LastRead(ct) ==
    CASE ct = 0 -> 0
      [] ct = 4 -> 1
      [] ct = 2 -> 2
      [] ct = 6 -> 3
      [] OTHER -> NoColorLen

\* truecolour channels stored in the order b, g, r
ResolvePixel_bgr(ct, ft, d, i, a, b, c, old) ==
    CASE ct \in {0, 4} ->
            LET pixel_r == remove_filter(ft, At(d, i), a.r, b.r, c.r)
                pixel_a == IF ct = 0 THEN OpaqueAlpha
                           ELSE remove_filter(ft, At(d, i + 1), a.a, b.a, c.a)
            IN  Pixel(pixel_r, pixel_r, pixel_r, pixel_a)
      [] ct \in {2, 6} ->
            LET pixel_a == IF ct = 2 THEN OpaqueAlpha
                           ELSE remove_filter(ft, At(d, i + 3), a.a, b.a, c.a)
            IN  Pixel(remove_filter(ft, At(d, i + 2), a.b, b.b, c.b),
                      remove_filter(ft, At(d, i + 1), a.g, b.g, c.g),
                      remove_filter(ft, At(d, i), a.r, b.r, c.r),
                      pixel_a)
      [] OTHER -> old

\* the match at 265-292: the pixel stored at pixel_data[h][w]
ResolvePixel(ct, ft, d, i, a, b, c, old) ==
    CASE ct \in {0, 4} ->
            LET pixel_r == remove_filter(ft, At(d, i), a.r, b.r, c.r)
                pixel_a == IF ct = 0 THEN OpaqueAlpha
                           ELSE remove_filter(ft, At(d, i + 1), a.a, b.a, c.a)
            IN  Pixel(pixel_r, pixel_r, pixel_r, pixel_a)
      [] ct \in {2, 6} ->
            LET pixel_a == IF ct = 2 THEN OpaqueAlpha
                           ELSE remove_filter(ft, At(d, i + 3), a.a, b.a, c.a)
            IN  Pixel(remove_filter(ft, At(d, i), a.r, b.r, c.r),
                      remove_filter(ft, At(d, i + 1), a.g, b.g, c.g),
                      remove_filter(ft, At(d, i + 2), a.b, b.b, c.b),
                      pixel_a)
      [] OTHER -> old

(***************************************************************************)
(* Pieces of read_chunk and its handlers (main.rs 130-230).                *)
(***************************************************************************)
\* the length field at 135-141
ChunkDataLen(bs, i) ==
    from_be_bytes(At(bs, i), At(bs, i + 1), At(bs, i + 2), At(bs, i + 3))

\* the cursor moved past length, type and data but not past the crc
NextCursor_no_crc(i, data_len) == i + LenFieldLen + TypeFieldLen + data_len

\* idx += 4; idx += 4; idx += data_len; idx += 4
NextCursor(i, data_len) == i + LenFieldLen + TypeFieldLen + data_len + CrcLen

\* separator_idx of read_chunk_text: the first zero byte, else 0
SeparatorIdx(d) ==
    IF \E i \in 1..Len(d) : d[i] = 0
    THEN (CHOOSE i \in 1..Len(d) : d[i] = 0 /\ \A j \in 1..(i - 1) : d[j] # 0) - 1
    ELSE 0

\* whether the handler chosen by the match at 158-164 panics on payload d
HandlerPanics(tag, d) ==
    CASE tag = TagIHDR -> Len(d) < IhdrLen
      [] tag = TagTEXT -> \/ SeparatorIdx(d) + 1 > Len(d)
                          \/ ~Utf8Ok(Slice(d, 0, SeparatorIdx(d)))
                          \/ ~Utf8Ok(Slice(d, SeparatorIdx(d) + 1, Len(d)))
      [] tag = TagTIME -> Len(d) < TimeLen
      [] OTHER -> FALSE

\* the header fields as read_chunk_ihdr sets them from a 13-byte payload
IhdrFields(d) ==
    <<from_be_bytes(At(d, 0), At(d, 1), At(d, 2), At(d, 3)),
      from_be_bytes(At(d, 4), At(d, 5), At(d, 6), At(d, 7)),
      At(d, 8), At(d, 9), At(d, 10), At(d, 11), At(d, 12)>>

\* the payload put in front of what was accumulated
AppendIdat_prepend(img, d) == d \o img

\* self.image_data.append(&mut data.to_vec())
AppendIdat(img, d) == img \o d

\* the header after the chunk: only IHDR assigns it
HeaderAfter(tag, d, old) == IF tag = TagIHDR THEN IhdrFields(d) ELSE old

\* image_data after the chunk: only IDAT appends to it
ImageDataAfter(tag, d, img) == IF tag = TagIDAT THEN AppendIdat(img, d) ELSE img

(***************************************************************************)
(* Inputs: files written from short chunk lists.                           *)
(***************************************************************************)
U32Be(n) == <<(n \div 16777216) % 256, (n \div 65536) % 256, (n \div 256) % 256, n % 256>>

Hdr(wd, ht, bd, ct) == U32Be(wd) \o U32Be(ht) \o <<bd, ct, 0, 0, 0>>

Chunk(tag, payload) == [tag |-> tag, payload |-> payload]

EncodeChunk(ch) == U32Be(Len(ch.payload)) \o ch.tag \o ch.payload \o <<0, 0, 0, 0>>

RECURSIVE EncodeChunks(_)
EncodeChunks(chs) ==
    IF chs = <<>> THEN <<>> ELSE EncodeChunk(Head(chs)) \o EncodeChunks(Tail(chs))

Encode(chs) == Signature \o EncodeChunks(chs)

ColourTypes == {0, 1, 2, 3, 4, 6}

\* headers of the scanline inputs: every size up to the bounds, every colour
\* type the match at 244-251 names and one it does not, two bit depths
BitDepths == {8, 16}

Headers ==
    {Hdr(wd, ht, bd, ct) :
        wd \in 0..MaxWidth, ht \in 0..MaxHeight, bd \in BitDepths, ct \in ColourTypes}

\* the chunks the stream inputs are made of
ChunkMenu ==
    { Chunk(TagIHDR, Hdr(1, 1, 8, 0)),
      Chunk(TagIHDR, Hdr(1, 2, 16, 4)),
      Chunk(TagIDAT, <<120, 1>>),
      Chunk(TagIDAT, <<99>>),
      Chunk(TagTEXT, <<65, 0, 66>>),
      Chunk(TagTIME, <<7, 230, 1, 2, 3, 4, 5>>),
      Chunk(TagIEND, <<>>) }

StreamInputs == UNION {[1..n -> ChunkMenu] : n \in 0..MaxChunks}

ScanInputs == {<<Chunk(TagIHDR, hd), Chunk(TagIDAT, <<120, 1>>)>> : hd \in Headers}

\* a file cut short by whole 4-byte fields, one with a short tIME payload, one
\* with an empty tEXt payload, one with a wrong first signature byte, and an
\* empty file
BrokenFiles ==
    LET good == <<Chunk(TagIHDR, Hdr(1, 1, 8, 0)), Chunk(TagIDAT, <<120, 1>>)>>
        full == Encode(good)
    IN  {[chunks |-> good, bytes |-> SubSeq(full, 1, Len(full) - CrcLen * k)] : k \in 1..MaxCut}
        \cup {[chunks |-> <<Chunk(TagTIME, <<7, 230>>)>>,
               bytes |-> Encode(<<Chunk(TagTIME, <<7, 230>>)>>)],
              [chunks |-> <<Chunk(TagTEXT, <<>>)>>,
               bytes |-> Encode(<<Chunk(TagTEXT, <<>>)>>)],
              [chunks |-> good, bytes |-> <<0>> \o Tail(full)],
              [chunks |-> <<>>, bytes |-> <<>>]}

Files ==
    {[chunks |-> chs, bytes |-> Encode(chs)] : chs \in StreamInputs \cup ScanInputs}
    \cup BrokenFiles

(***************************************************************************)
(* The inflater (flate2::read::ZlibDecoder, outside the repository): for   *)
(* the program it is a call that fails or returns some byte buffer.  The   *)
(* buffers offered are the ones an encoder of the current header would     *)
(* have written, with every filter byte 0..5 on every row, the same cut    *)
(* short by one byte, and the empty buffer; nothing is inflated from no    *)
(* input.                                                                  *)
(***************************************************************************)
InflateErr == [ok |-> FALSE, buf |-> <<>>]

InflateOk(buf) == [ok |-> TRUE, buf |-> buf]

FilterBytes == 0..5

PatternByte(seed, k) == (seed * 97 + k * 59 + (k * k) * 3) % 256

Channels(ct) == IF ColorLen(ct) = NoColorLen THEN 1 ELSE ColorLen(ct)

Scanlines(wd, ht, n, fts, seed) ==
    [k \in 1..(ht * (wd * n + 1)) |->
        IF (k - 1) % (wd * n + 1) = 0
        THEN fts[((k - 1) \div (wd * n + 1)) + 1]
        ELSE PatternByte(seed, k)]

Buffers(wd, ht, ct) ==
    {Scanlines(wd, ht, Channels(ct), fts, seed) :
        fts \in [1..ht -> FilterBytes], seed \in 1..NumSeeds}

\* the buffers whose filter bytes are all 0, cut short by one byte
ShortBuffers(wd, ht, ct) ==
    {SubSeq(Scanlines(wd, ht, Channels(ct), [i \in 1..ht |-> 0], seed), 1,
            ht * (wd * Channels(ct) + 1) - 1) : seed \in 1..NumSeeds}

InflateOutcomes(input, wd, ht, ct) ==
    IF input = <<>> THEN {InflateErr, InflateOk(<<>>)}
    ELSE {InflateErr, InflateOk(<<>>)}
         \cup {InflateOk(b) : b \in Buffers(wd, ht, ct)}
         \cup (IF ht > 0 THEN {InflateOk(b) : b \in ShortBuffers(wd, ht, ct)} ELSE {})

(***************************************************************************)
(* State after PngReader::new(bytes) (main.rs 91-104), before read().      *)
(***************************************************************************)
NoCall == [k |-> 0, x |-> 0, a |-> 0, b |-> 0, c |-> 0, out |-> 0 - 1]

NoNbr == [a |-> DefaultPixel, b |-> DefaultPixel, c |-> DefaultPixel, row |-> 0 - 1, col |-> 0 - 1]

Fresh ==
    /\ err = ""
    /\ idx = 0
    /\ nread = 0
    /\ width = 0
    /\ height = 0
    /\ bit_depth = 0
    /\ colour_type = 0
    /\ compression_method = 0
    /\ filter_method = 0
    /\ interlace_method = 0
    /\ image_data = <<>>
    /\ pixel_data = <<>>
    /\ inflate_calls = 0
    /\ inflate_input = <<>>
    /\ data = <<>>
    /\ color_len = 0
    /\ h = 0
    /\ w = 0
    /\ dec_idx = 0
    /\ filter_type = 0
    /\ nbr = NoNbr
    /\ written = <<>>
    /\ rf = NoCall

Init ==
    /\ \E f \in Files : bytes = f.bytes /\ chunks = f.chunks
    /\ pc = "signature"
    /\ Fresh

Panic(msg) ==
    /\ pc' = "panic"
    /\ err' = msg

(***************************************************************************)
(* read(): the signature, then the chunk loop (main.rs 106-169).           *)
(***************************************************************************)
read_signature ==
    /\ pc = "signature"
    /\ IF Len(bytes) < SigLen
       THEN Panic("range end index out of range") /\ idx' = idx
       ELSE IF Slice(bytes, 0, SigLen) # Signature
            THEN Panic("Invalid data") /\ idx' = idx
            ELSE pc' = "chunks" /\ err' = err /\ idx' = SigLen
    /\ UNCHANGED <<bytes, chunks, nread, header, image_data, pixel_data,
                   inflate_calls, inflate_input, decode_locals, rf>>

read_chunk ==
    /\ pc = "chunks"
    /\ idx < Len(bytes)
    /\ IF idx + LenFieldLen > Len(bytes)
       THEN /\ Panic("index out of bounds")
            /\ UNCHANGED <<idx, nread, header, image_data>>
       ELSE LET data_len == ChunkDataLen(bytes, idx)
                type_at == idx + LenFieldLen
                data_at == type_at + TypeFieldLen
            IN  IF data_at > Len(bytes)
                THEN /\ Panic("range end index out of range")
                     /\ UNCHANGED <<idx, nread, header, image_data>>
                ELSE IF ~Utf8Ok(Slice(bytes, type_at, data_at))
                THEN /\ Panic("called unwrap on an Err value")
                     /\ UNCHANGED <<idx, nread, header, image_data>>
                ELSE IF data_at + data_len > Len(bytes)
                THEN /\ Panic("range end index out of range")
                     /\ UNCHANGED <<idx, nread, header, image_data>>
                ELSE LET chunk_type == Slice(bytes, type_at, data_at)
                         d == Slice(bytes, data_at, data_at + data_len)
                         hf == HeaderAfter(chunk_type, d, header)
                     IN  IF HandlerPanics(chunk_type, d)
                         THEN /\ Panic("chunk handler panicked")
                              /\ UNCHANGED <<idx, nread, header, image_data>>
                         ELSE /\ width' = hf[1]
                              /\ height' = hf[2]
                              /\ bit_depth' = hf[3]
                              /\ colour_type' = hf[4]
                              /\ compression_method' = hf[5]
                              /\ filter_method' = hf[6]
                              /\ interlace_method' = hf[7]
                              /\ image_data' = ImageDataAfter(chunk_type, d, image_data)
                              /\ idx' = NextCursor(idx, data_len)
                              /\ nread' = nread + 1
                              /\ UNCHANGED <<pc, err>>
    /\ UNCHANGED <<bytes, chunks, pixel_data, inflate_calls, inflate_input,
                   decode_locals, rf>>

(***************************************************************************)
(* decode_image_data (main.rs 240-298), one step per loop iteration.       *)
(***************************************************************************)
\* 241-251: the loop of read() has ended; inflate, then choose color_len
decode_image_data ==
    /\ pc = "chunks"
    /\ idx >= Len(bytes)
    /\ inflate_calls' = inflate_calls + 1
    /\ inflate_input' = image_data
    /\ \E out \in InflateOutcomes(image_data, width, height, colour_type) :
          IF ~out.ok
          THEN /\ Panic("called unwrap on an Err value")
               /\ UNCHANGED <<data, color_len>>
          ELSE /\ data' = out.buf
               /\ IF ColorLen(colour_type) = NoColorLen
                  THEN Panic("Invalid colour type") /\ color_len' = color_len
                  ELSE /\ color_len' = ColorLen(colour_type)
                       /\ pc' = "rows"
                       /\ err' = err
    /\ UNCHANGED <<bytes, chunks, idx, nread, header, image_data, pixel_data,
                   h, w, dec_idx, filter_type, nbr, written, rf>>

\* 253-258: push the row, read its filter byte
decode_row ==
    /\ pc = "rows"
    /\ h < height
    /\ pixel_data' = Append(pixel_data, NewRow(width))
    /\ IF RowStart(width, color_len, h) >= Len(data)
       THEN /\ Panic("index out of bounds")
            /\ UNCHANGED <<h, w, dec_idx, filter_type>>
       ELSE /\ filter_type' = At(data, RowStart(width, color_len, h))
            /\ dec_idx' = RowStart(width, color_len, h) + 1
            /\ w' = 0
            /\ err' = err
            /\ IF width = 0
               THEN pc' = "rows" /\ h' = h + 1
               ELSE pc' = "pixels" /\ h' = h
    /\ UNCHANGED <<bytes, chunks, idx, nread, header, image_data,
                   inflate_calls, inflate_input, data, color_len, nbr, written, rf>>

\* 260-296: one pixel
decode_pixel ==
    /\ pc = "pixels"
    /\ w < width
    /\ LET a == LeftNeighbour(pixel_data, h, w)
           b == UpNeighbour(pixel_data, h, w)
           c == UpLeftNeighbour(pixel_data, h, w)
       IN  /\ nbr' = [a |-> a, b |-> b, c |-> c, row |-> h, col |-> w]
           /\ IF LastRead(colour_type) # NoColorLen
                 /\ dec_idx + LastRead(colour_type) >= Len(data)
              THEN /\ Panic("index out of bounds")
                   /\ UNCHANGED <<pixel_data, written, h, w, dec_idx>>
              ELSE /\ pixel_data' =
                        [pixel_data EXCEPT ![h + 1][w + 1] =
                            ResolvePixel(colour_type, filter_type, data, dec_idx, a, b, c, @)]
                   /\ written' = IF LastRead(colour_type) # NoColorLen
                                 THEN Append(written, <<h, w>>)
                                 ELSE written
                   /\ dec_idx' = dec_idx + color_len
                   /\ w' = w + 1
                   /\ err' = err
                   /\ IF w + 1 < width
                      THEN pc' = "pixels" /\ h' = h
                      ELSE pc' = "rows" /\ h' = h + 1
    /\ UNCHANGED <<bytes, chunks, idx, nread, header, image_data,
                   inflate_calls, inflate_input, data, color_len, filter_type, rf>>

\* the loop at 253 ends; decode_image_data and read() return
decode_finish ==
    /\ pc = "rows"
    /\ h >= height
    /\ pc' = "done"
    /\ UNCHANGED <<bytes, chunks, err, idx, nread, header, image_data, pixel_data,
                   inflate_calls, inflate_input, decode_locals, rf>>

Next ==
    \/ read_signature
    \/ read_chunk
    \/ decode_image_data
    \/ decode_row
    \/ decode_pixel
    \/ decode_finish

Spec == Init /\ [][Next]_vars

(***************************************************************************)
(* remove_filter on its own: one call on sampled arguments.                *)
(***************************************************************************)
SampleBytes == (0..MaxSmall) \cup {10, 128} \cup ((255 - MaxSmall)..255)

SampleX == {0, 1, 128, 255}

InitFilter ==
    /\ bytes = <<>>
    /\ chunks = <<>>
    /\ pc = "filter"
    /\ err = ""
    /\ idx = 0
    /\ nread = 0
    /\ width = 0
    /\ height = 0
    /\ bit_depth = 0
    /\ colour_type = 0
    /\ compression_method = 0
    /\ filter_method = 0
    /\ interlace_method = 0
    /\ image_data = <<>>
    /\ pixel_data = <<>>
    /\ inflate_calls = 0
    /\ inflate_input = <<>>
    /\ data = <<>>
    /\ color_len = 0
    /\ h = 0
    /\ w = 0
    /\ dec_idx = 0
    /\ filter_type = 0
    /\ nbr = NoNbr
    /\ written = <<>>
    /\ \E k \in FilterBytes, x \in SampleX, a \in SampleBytes, b \in SampleBytes, c \in SampleBytes :
          rf = [k |-> k, x |-> x, a |-> a, b |-> b, c |-> c, out |-> 0 - 1]

call_remove_filter ==
    /\ pc = "filter"
    /\ rf.out < 0
    /\ rf' = [rf EXCEPT !.out = remove_filter(rf.k, rf.x, rf.a, rf.b, rf.c)]
    /\ UNCHANGED <<bytes, chunks, pc, err, idx, nread, header, image_data, pixel_data,
                   inflate_calls, inflate_input, decode_locals>>

NextFilter == call_remove_filter

SpecFilter == InitFilter /\ [][NextFilter]_vars

(***************************************************************************)
(* Properties.                                                             *)
(***************************************************************************)
Range(s) == {s[i] : i \in 1..Len(s)}

Dispatched == SubSeq(chunks, 1, nread)

RECURSIVE IdatPayloads(_)
IdatPayloads(chs) ==
    IF chs = <<>> THEN <<>>
    ELSE (IF Head(chs).tag = TagIDAT THEN Head(chs).payload ELSE <<>>)
         \o IdatPayloads(Tail(chs))

\* C1: when read() has returned, pixel_data has exactly `height` rows and
\* every row has exactly `width` pixels.
C1_GridExtents ==
    pc = "done" =>
        /\ Len(pixel_data) = height
        /\ \A r \in 1..Len(pixel_data) : Len(pixel_data[r]) = width

C1_Witness ==
    /\ pc = "done"
    /\ height >= 2
    /\ width >= 2
    /\ Len(pixel_data) = height

\* C2: a decode in which an IDAT chunk was dispatched before any IHDR chunk
\* fails: it never reaches scanline reconstruction and never finishes a grid.
IdatBeforeIhdr ==
    \E i \in 1..nread :
        /\ chunks[i].tag = TagIDAT
        /\ \A j \in 1..(i - 1) : chunks[j].tag # TagIHDR

C2_PayloadBeforeHeaderFails ==
    IdatBeforeIhdr => pc \notin {"rows", "pixels", "done"}

\* C3: once the first IHDR chunk has been dispatched, no later chunk (a second
\* IHDR included) changes any of the seven header fields.
IhdrSeen == \E i \in 1..nread : chunks[i].tag = TagIHDR

C3_HeaderImmutable == [][IhdrSeen => header' = header]_vars

\* C4: a decompressed buffer in which some row's filter byte is outside 0..4
\* is fatal to the decode: read() never returns with a grid built from it.
C4_InvalidFilterFatal ==
    pc = "done" =>
        \A r \in 0..(height - 1) : At(data, RowStart(width, color_len, r)) \in 0..4

\* C5: after an IHDR chunk whose colour type is outside {0,2,3,4,6} or whose
\* bit depth is not 8 has been dispatched, the decode has failed: no later
\* chunk is processed and no grid is built.
BadHeaderDispatched ==
    \E i \in 1..nread :
        /\ chunks[i].tag = TagIHDR
        /\ \/ At(chunks[i].payload, 9) \notin {0, 2, 3, 4, 6}
           \/ At(chunks[i].payload, 8) # 8

C5_BadHeaderFailsAtParse == BadHeaderDispatched => pc = "panic"

\* C6: the inflater is called at most once, only after every chunk of the
\* input has been consumed, on the concatenation of all IDAT payloads in
\* stream order; during the chunk loop image_data is the concatenation of the
\* IDAT payloads dispatched so far (no other chunk type touches it).
C6_PayloadConcatenated ==
    /\ inflate_calls <= 1
    /\ pc = "chunks" => image_data = IdatPayloads(Dispatched)
    /\ pc \in {"signature", "chunks"} => inflate_calls = 0
    /\ pc \in {"rows", "pixels", "done"} => inflate_calls = 1
    /\ inflate_calls = 1 =>
          /\ nread = Len(chunks)
          /\ idx >= Len(bytes)
          /\ inflate_input = IdatPayloads(chunks)

C6_Witness ==
    /\ inflate_calls = 1
    /\ Len(chunks) >= 3
    /\ \E i, j \in 1..Len(chunks) :
          /\ i + 1 < j
          /\ chunks[i].tag = TagIDAT
          /\ chunks[j].tag = TagIDAT
          /\ chunks[i].payload # chunks[j].payload
          /\ chunks[i + 1].tag # TagIDAT

\* C7: a read_chunk call that returns moves the cursor by exactly
\* 4 + 4 + L + 4 for the chunk's declared length L, whatever its type, so the
\* cursor grows and stands on the next chunk's length field; a chunk with an
\* unrecognised type raises no error and leaves header, image_data and
\* pixel_data as they were.
KnownTags == {TagIHDR, TagIDAT, TagTEXT, TagTIME}

RefPaeth(a, b, c) ==
    LET p == a + b - c
        dist(v) == IF p >= v THEN p - v ELSE v - p
        best == CHOOSE m \in {dist(a), dist(b), dist(c)} :
                    \A n \in {dist(a), dist(b), dist(c)} : m <= n
    IN  IF dist(a) = best THEN a ELSE IF dist(b) = best THEN b ELSE c

RefPredict(k, x, a, b, c) ==
    LET pred == CASE k = 0 -> 0
                  [] k = 1 -> a
                  [] k = 2 -> b
                  [] k = 3 -> (a + b) \div 2
                  [] k = 4 -> RefPaeth(a, b, c)
    IN  (x + pred) % 256

C8_PredictorMatchesReference ==
    /\ (rf.out >= 0 /\ rf.k \in 0..4) =>
          rf.out = RefPredict(rf.k, rf.x, rf.a, rf.b, rf.c)
    /\ (rf.out >= 0 /\ rf.k = 4 /\ rf.a = 10 /\ rf.b = 10 /\ rf.c = 10) =>
          rf.out = (rf.x + 10) % 256
    /\ (rf.out >= 0 /\ rf.k = 4 /\ rf.a = 0 /\ rf.b = 0 /\ rf.c = 255) =>
          rf.out = rf.x

C8_Witness ==
    /\ rf.out >= 0
    /\ rf.k = 4
    /\ rf.a = 4
    /\ rf.b = 1
    /\ rf.c = 2
    /\ rf.x = 255

\* C9: for colour types 0, 2, 4, 6 (1, 3, 2, 4 channels), when every row's
\* filter byte is 0, pixel (r, c) of the finished grid is made of the raw
\* bytes at offset r*(width*n+1) + 1 + c*n: {g,g,g,255}, {r,g,b,255},
\* {g,g,g,a}, {r,g,b,a}.
RefChannels(ct) == CASE ct = 0 -> 1 [] ct = 2 -> 3 [] ct = 4 -> 2 [] ct = 6 -> 4

RefPixel(ct, d, off) ==
    CASE ct = 0 -> Pixel(At(d, off), At(d, off), At(d, off), 255)
      [] ct = 4 -> Pixel(At(d, off), At(d, off), At(d, off), At(d, off + 1))
      [] ct = 2 -> Pixel(At(d, off), At(d, off + 1), At(d, off + 2), 255)
      [] ct = 6 -> Pixel(At(d, off), At(d, off + 1), At(d, off + 2), At(d, off + 3))

AllRowsUnfiltered ==
    \A r \in 0..(height - 1) : At(data, r * (width * RefChannels(colour_type) + 1)) = 0

C9_UnfilteredRowsReproduced ==
    (pc = "done" /\ colour_type \in {0, 2, 4, 6} /\ AllRowsUnfiltered) =>
        \A r \in 0..(height - 1) : \A c \in 0..(width - 1) :
            pixel_data[r + 1][c + 1] =
                RefPixel(colour_type, data,
                         r * (width * RefChannels(colour_type) + 1) + 1
                            + c * RefChannels(colour_type))

C9_Witness ==
    /\ pc = "done"
    /\ colour_type = 4
    /\ width >= 2
    /\ height >= 2
    /\ AllRowsUnfiltered
    /\ pixel_data[2][2].a # 255

\* C10: a pixel step at (h, w) reads as left, up and upper-left neighbours the
\* cells (h, w-1), (h-1, w), (h-1, w-1) of the grid, or zero at the boundary
\* (w = 0, h = 0, either); the cells it reads were assigned before and no
\* cell but (h, w) changes; cells are assigned in row-major order; each
\* channel is predicted from the same channel of the three neighbours.
ZeroPixel == [r |-> 0, g |-> 0, b |-> 0, a |-> 0]

C10_NeighboursRowMajor ==
    [][(pc = "pixels" /\ pc' \in {"pixels", "rows"}) =>
          LET left == IF w = 0 THEN ZeroPixel ELSE pixel_data[h + 1][w]
              up == IF h = 0 THEN ZeroPixel ELSE pixel_data[h][w + 1]
              upleft == IF w = 0 \/ h = 0 THEN ZeroPixel ELSE pixel_data[h][w]
              new == pixel_data'[h + 1][w + 1]
              x(k) == At(data, dec_idx + k)
              ft == filter_type
          IN  /\ nbr'.row = h /\ nbr'.col = w
              /\ nbr'.a = left
              /\ nbr'.b = up
              /\ nbr'.c = upleft
              /\ \A r \in 1..Len(pixel_data) : \A c \in 1..width :
                    <<r, c>> # <<h + 1, w + 1>> => pixel_data'[r][c] = pixel_data[r][c]
              /\ Len(pixel_data') = Len(pixel_data)
              /\ colour_type \in {0, 2, 4, 6} =>
                    /\ w > 0 => <<h, w - 1>> \in Range(written)
                    /\ h > 0 => <<h - 1, w>> \in Range(written)
                    /\ (w > 0 /\ h > 0) => <<h - 1, w - 1>> \in Range(written)
                    /\ <<h, w>> \notin Range(written)
                    /\ written' = Append(written, <<h, w>>)
                    /\ Len(written') = h * width + w + 1
              /\ (colour_type \in {2, 6} /\ ft \in 0..4) =>
                    /\ new.r = RefPredict(ft, x(0), left.r, up.r, upleft.r)
                    /\ new.g = RefPredict(ft, x(1), left.g, up.g, upleft.g)
                    /\ new.b = RefPredict(ft, x(2), left.b, up.b, upleft.b)
              /\ (colour_type = 6 /\ ft \in 0..4) =>
                    new.a = RefPredict(ft, x(3), left.a, up.a, upleft.a)
              /\ (colour_type \in {0, 4} /\ ft \in 0..4) =>
                    new.r = RefPredict(ft, x(0), left.r, up.r, upleft.r)
              /\ (colour_type = 4 /\ ft \in 0..4) =>
                    new.a = RefPredict(ft, x(1), left.a, up.a, upleft.a)]_vars

C10_Witness ==
    /\ pc \in {"rows", "done"}
    /\ colour_type = 6
    /\ nbr.row = 1
    /\ nbr.col = 1
    /\ filter_type = 4
    /\ nbr.a # nbr.b
    /\ nbr.b # nbr.c
    /\ Len(written) = 2 * width

====
